---- MODULE Spec2Model ----
(***************************************************************************)
(* The friend-links generator: script.rs (issue validation, grouping and   *)
(* output assembly) and json_to_js.rs (the JSON -> JavaScript transcoder). *)
(*                                                                         *)
(* An issue body is a sequence of text chunks.  Every chunk stands for the *)
(* literal text it is written as; the chunks are chosen so that no marker  *)
(* or fence can straddle a chunk boundary, which makes substring search on *)
(* the text and on the chunk sequence agree.                               *)
(***************************************************************************)
EXTENDS Integers, Sequences, FiniteSets, TLC

VARIABLES
    issues,              \* Vec<Issue> returned by get_all_issues
    config,              \* Config read from config.toml
    pc,                  \* position of main
    idx,                 \* position of the running for loop
    entries,             \* Vec<LinkEntry> built by get_all_valid_issues
    active_entries,      \* Vec<LinkEntry> returned by get_all_active_entries
    log,                 \* the skip diagnostics printed so far
    group_to_entry_map,  \* HashMap<String, Vec<LinkEntry>>
    json_output,         \* Vec<serde_json::Value> returned by generate_json
    js_input,            \* the serde_json::Value handed to json_to_js_format
    js_text,             \* the String json_to_js_format returned
    js_pc                \* position of the transcoder call

vars == <<issues, config, pc, idx, entries, active_entries, log,
          group_to_entry_map, json_output, js_input, js_text, js_pc>>

pipeline_vars == <<issues, config, pc, idx, entries, active_entries, log,
                   group_to_entry_map, json_output>>

js_vars == <<js_input, js_text, js_pc>>

(***************************************************************************)
(* Bounds of the model.                                                    *)
(***************************************************************************)
MaxIssues == 2
MaxGroups == 2
MaxBodyLen == 3
MaxContent == 3

(***************************************************************************)
(* Text of issue bodies.                                                   *)
(***************************************************************************)
data_start == "<!-- DATA_START -->"
data_end == "<!-- DATA_END -->"
\* A string of this language cannot hold a backquote: ''' stands for the
\* three backquotes of a fence, and <<''', json>> for the opener of a json fence.
code_block_end == "'''"
code_block_start == <<code_block_end, "json">>

Chunks == {data_start, data_end, code_block_end, "json", " ", "{}", "\""}

RECURSIVE SeqsUpTo(_, _)
SeqsUpTo(S, n) ==
    IF n = 0 THEN {<<>>}
    ELSE LET shorter == SeqsUpTo(S, n - 1)
         IN shorter \cup {Append(s, c) : s \in shorter, c \in S}

Occurs(s, pat, i) ==
    /\ i + Len(pat) - 1 <= Len(s)
    /\ SubSeq(s, i, i + Len(pat) - 1) = pat

\* str::find: the position of the first occurrence, 0 for None.
find(s, pat) ==
    IF \E i \in 1..Len(s) : Occurs(s, pat, i)
    THEN CHOOSE i \in 1..Len(s) :
            Occurs(s, pat, i) /\ \A j \in 1..(i - 1) : ~Occurs(s, pat, j)
    ELSE 0

\* str::matches(pat).count(): non-overlapping occurrences, left to right.
RECURSIVE matches_from(_, _, _)
matches_from(s, pat, i) ==
    IF i > Len(s) THEN 0
    ELSE IF Occurs(s, pat, i) THEN 1 + matches_from(s, pat, i + Len(pat))
    ELSE matches_from(s, pat, i + 1)

matches_count(s, pat) == matches_from(s, pat, 1)

RECURSIVE trim_start(_)
trim_start(s) ==
    IF s # <<>> /\ Head(s) = " " THEN trim_start(Tail(s)) ELSE s

RECURSIVE trim_end(_)
trim_end(s) ==
    IF s # <<>> /\ s[Len(s)] = " " THEN trim_end(SubSeq(s, 1, Len(s) - 1)) ELSE s

trim(s) == trim_end(trim_start(s))

starts_with(s, pat) == Occurs(s, pat, 1)

ends_with(s, pat) == Len(pat) <= Len(s) /\ Occurs(s, pat, Len(s) - Len(pat) + 1)

(***************************************************************************)
(* serde_json::from_str on a chunk sequence.  Of the chunks, "{}" is an    *)
(* empty object, a pair of "\"" chunks delimits a string (every other      *)
(* chunk is plain text inside it), " " is whitespace, and anything else    *)
(* (no text, "json", a marker, a fence, two values in a row, an open       *)
(* string) is a syntax error.                                              *)
(***************************************************************************)
JsonErr == [ok |-> FALSE, value |-> [kind |-> "none", text |-> <<>>]]

from_str(text) ==
    LET t == trim(text)
    IN IF t = <<"{}">>
       THEN [ok |-> TRUE, value |-> [kind |-> "object", text |-> <<>>]]
       ELSE IF /\ Len(t) >= 2
               /\ t[1] = "\""
               /\ t[Len(t)] = "\""
               /\ \A i \in 2..(Len(t) - 1) : t[i] # "\""
       THEN [ok |-> TRUE,
             value |-> [kind |-> "string", text |-> SubSeq(t, 2, Len(t) - 1)]]
       ELSE JsonErr

(***************************************************************************)
(* get_all_valid_issues: the checks of one issue body.                     *)
(***************************************************************************)
Rejected(reason) == [ok |-> FALSE, reason |-> reason, text |-> <<>>]

Passed(text) == [ok |-> TRUE, reason |-> "", text |-> text]

DataSectionUnordered(body) ==
    LET data_start_index == find(body, <<data_start>>)
        data_end_index == find(body, <<data_end>>)
        lo == IF data_start_index < data_end_index
              THEN data_start_index ELSE data_end_index
        hi == IF data_start_index < data_end_index
              THEN data_end_index ELSE data_start_index
    IN IF data_start_index = 0 \/ data_end_index = 0
       THEN Rejected("Missing DATA_START or DATA_END comment.")
       ELSE IF \/ matches_count(body, <<data_start>>) # 1
               \/ matches_count(body, <<data_end>>) # 1
       THEN Rejected("Multiple DATA_START or DATA_END comments found.")
       ELSE Passed(trim(SubSeq(body, lo + 1, hi - 1)))

DataSectionFirstPair(body) ==
    LET data_start_index == find(body, <<data_start>>)
        data_end_index == find(body, <<data_end>>)
    IN IF data_start_index = 0 \/ data_end_index = 0
       THEN Rejected("Missing DATA_START or DATA_END comment.")
       ELSE IF data_start_index > data_end_index
       THEN Rejected("DATA_START comment is after DATA_END comment.")
       ELSE Passed(trim(SubSeq(body, data_start_index + 1, data_end_index - 1)))

\* The marker checks and the extraction of the data section.
DataSection(body) ==
    LET data_start_index == find(body, <<data_start>>)
        data_end_index == find(body, <<data_end>>)
    IN IF data_start_index = 0 \/ data_end_index = 0
       THEN Rejected("Missing DATA_START or DATA_END comment.")
       ELSE IF data_start_index > data_end_index
       THEN Rejected("DATA_START comment is after DATA_END comment.")
       ELSE IF \/ matches_count(body, <<data_start>>) # 1
               \/ matches_count(body, <<data_end>>) # 1
       THEN Rejected("Multiple DATA_START or DATA_END comments found.")
       ELSE Passed(trim(SubSeq(body, data_start_index + 1, data_end_index - 1)))

CodeBlockKeepsLanguage(data_section) ==
    IF ~(/\ starts_with(data_section, code_block_start)
         /\ ends_with(data_section, <<code_block_end>>))
    THEN Rejected("Other Markdown content found in the data section.")
    ELSE IF \/ matches_count(data_section, code_block_start) # 1
            \/ matches_count(data_section, <<code_block_end>>) # 2
    THEN Rejected("Multiple code blocks (or other Markdown content) found in the data section.")
    ELSE Passed(SubSeq(data_section, Len(<<code_block_end>>) + 1,
                       Len(data_section) - Len(<<code_block_end>>)))

\* The fence checks and the extraction of the code block content.
CodeBlock(data_section) ==
    IF ~(/\ starts_with(data_section, code_block_start)
         /\ ends_with(data_section, <<code_block_end>>))
    THEN Rejected("Other Markdown content found in the data section.")
    ELSE IF \/ matches_count(data_section, code_block_start) # 1
            \/ matches_count(data_section, <<code_block_end>>) # 2
    THEN Rejected("Multiple code blocks (or other Markdown content) found in the data section.")
    ELSE Passed(SubSeq(data_section, Len(code_block_start) + 1,
                       Len(data_section) - Len(<<code_block_end>>)))

ValidateNoJsonCheck(body) ==
    LET section == DataSection(body)
    IN IF ~section.ok THEN section ELSE CodeBlock(section.text)

\* All the checks of one body, in the order of the code.
Validate(body) ==
    LET section == DataSection(body)
    IN IF ~section.ok THEN section
       ELSE LET block == CodeBlock(section.text)
            IN IF ~block.ok THEN block
               ELSE IF ~from_str(block.text).ok
               THEN Rejected("Invalid JSON in the code block.")
               ELSE block

(***************************************************************************)
(* Issue::created_at / Issue::updated_at: chrono's parse_from_rfc3339      *)
(* followed by with_timezone(&Utc).  An instant is the minute of the day   *)
(* 2025-05-01 in UTC.                                                      *)
(***************************************************************************)
TimeStrings ==
    {"2025-05-01T12:00:00Z", "2025-05-01T14:30:00+02:00", "yesterday"}

Rfc3339Table ==
    [s \in {"2025-05-01T12:00:00Z", "2025-05-01T14:30:00+02:00"} |->
        IF s = "2025-05-01T12:00:00Z" THEN 12 * 60 ELSE 14 * 60 + 30 - 2 * 60]

parse_utc_only(s) ==
    IF s = "2025-05-01T12:00:00Z"
    THEN [ok |-> TRUE, instant |-> Rfc3339Table[s]]
    ELSE [ok |-> FALSE, instant |-> 0]

parse_from_rfc3339(s) ==
    IF s \in DOMAIN Rfc3339Table
    THEN [ok |-> TRUE, instant |-> Rfc3339Table[s]]
    ELSE [ok |-> FALSE, instant |-> 0]


\* Issue::created_at and Issue::updated_at.
created_at(issue) == parse_from_rfc3339(issue.created_at)

updated_at(issue) == parse_from_rfc3339(issue.updated_at)

(***************************************************************************)
(* The inputs: the issues fetched and the configuration.  Of an Issue the  *)
(* model keeps the fields the script reads; labels holds the label names.  *)
(***************************************************************************)
Labels == {"approved", "cat-a", "cat-b"}

GroupLabels == {"cat-a", "cat-b"}

SelectorLabels == {"approved", "cat-a"}

IssueId(p) == 100 + p

Issue(p, body, labels, created, updated) ==
    [id |-> IssueId(p), body |-> body, labels |-> labels,
     created_at |-> created, updated_at |-> updated]

GroupConfig(k, label) ==
    [name |-> "Group " \o ToString(k),
     description |-> "Links of " \o label,
     label |-> label]

Config(selector, sort, labels) ==
    [generation |-> [label |-> selector, sort_by_updated_time |-> sort],
     groups |-> [k \in 1..Len(labels) |-> GroupConfig(k, labels[k])]]

Configs ==
    {Config(selector, sort, labels) :
        selector \in SelectorLabels, sort \in BOOLEAN,
        labels \in SeqsUpTo(GroupLabels, MaxGroups)}

DefaultConfig == Config("approved", FALSE, <<"cat-a", "cat-b">>)

\* A body that passes every check; its payload is a string of p words.
PayloadBody(p) ==
    <<data_start>> \o code_block_start \o <<"\"">>
        \o [i \in 1..p |-> "json"] \o <<"\"", code_block_end, data_end>>

GoodCore == code_block_start \o <<"{}", code_block_end>>

\* Every body of at most MaxBodyLen chunks.
ShortBodies == SeqsUpTo(Chunks, MaxBodyLen)

\* A data region between the markers: optional whitespace, an opener or
\* none, any content of at most MaxContent chunks, a closer or none.
FencedBodies ==
    {<<data_start>> \o w1 \o open \o content \o close \o w2 \o <<data_end>> :
        w1 \in {<<>>, <<" ">>}, w2 \in {<<>>, <<" ">>},
        open \in {code_block_start, <<code_block_end>>, <<>>},
        close \in {<<code_block_end>>, <<>>},
        content \in SeqsUpTo({" ", "{}", "\"", code_block_end, "json"}, MaxContent)}

\* A well-formed code block between any two markers, with text around them.
WrappedBodies ==
    {pre \o <<m1>> \o GoodCore \o <<m2>> \o post :
        pre \in SeqsUpTo(Chunks, 1), post \in SeqsUpTo(Chunks, 1),
        m1 \in {data_start, data_end}, m2 \in {data_start, data_end}}

Bodies == ShortBodies \cup FencedBodies \cup WrappedBodies

\* One body for each outcome of the checks.
SampleBodies ==
    {PayloadBody(1),
     <<data_start>> \o GoodCore,
     <<data_end>> \o GoodCore \o <<data_start>>,
     <<data_start, "json">> \o GoodCore \o <<data_end>>,
     <<data_start>> \o GoodCore \o GoodCore \o <<data_end>>,
     <<data_start>> \o code_block_start \o <<"json", code_block_end, data_end>>}

TimePairs ==
    {<<"2025-05-01T12:00:00Z", "2025-05-01T12:00:00Z">>,
     <<"2025-05-01T14:30:00+02:00", "2025-05-01T12:00:00Z">>,
     <<"yesterday", "2025-05-01T12:00:00Z">>,
     <<"2025-05-01T12:00:00Z", "yesterday">>}

\* Lists of at most n issues; the issue at position p is drawn from Of(p).
RECURSIVE IssueLists(_, _)
IssueLists(Of(_), n) ==
    IF n = 0 THEN {<<>>}
    ELSE LET shorter == IssueLists(Of, n - 1)
         IN shorter \cup
            {Append(l, i) : l \in {s \in shorter : Len(s) = n - 1}, i \in Of(n)}

\* An issue that passes the checks under every set of labels, and one that
\* carries every label and is skipped.
LabelledIssues(p) ==
    {Issue(p, PayloadBody(p), labels, "2025-05-01T12:00:00Z", "2025-05-01T12:00:00Z") :
        labels \in SUBSET Labels}
    \cup {Issue(p, <<data_start>> \o GoodCore, Labels,
                "2025-05-01T12:00:00Z", "2025-05-01T12:00:00Z")}

SampleIssues(p) ==
    {Issue(p, body, {"approved", "cat-a"}, t[1], t[2]) :
        body \in SampleBodies, t \in TimePairs}

BodyIssues(p) ==
    {Issue(p, body, {"approved", "cat-a"}, created, "2025-05-01T12:00:00Z") :
        body \in Bodies, created \in {"2025-05-01T14:30:00+02:00", "yesterday"}}

(***************************************************************************)
(* The state after config.toml is read and the issues are fetched.         *)
(***************************************************************************)
NoMap == [label \in {} |-> <<>>]

JsIdle ==
    /\ js_input = [t |-> "null", s |-> <<>>, n |-> 0, kids |-> <<>>]
    /\ js_text = <<>>
    /\ js_pc = "idle"

InitWith(lists, configs) ==
    /\ issues \in lists
    /\ config \in configs
    /\ pc = "validate"
    /\ idx = 1
    /\ entries = <<>>
    /\ active_entries = <<>>
    /\ log = <<>>
    /\ group_to_entry_map = NoMap
    /\ json_output = <<>>
    /\ JsIdle

Init == InitWith(IssueLists(LabelledIssues, MaxIssues), Configs)

InitValid == InitWith(IssueLists(SampleIssues, MaxIssues), {DefaultConfig})

InitBody == InitWith({<<i>> : i \in BodyIssues(1)}, {DefaultConfig})

(***************************************************************************)
(* get_all_valid_issues: one iteration of its loop.                        *)
(***************************************************************************)
LinkEntry(issue, json_data, created, updated) ==
    [id |-> issue.id, labels |-> issue.labels, json_data |-> json_data,
     created_at |-> created, updated_at |-> updated]

CheckIssue ==
    /\ pc = "validate"
    /\ idx <= Len(issues)
    /\ LET issue == issues[idx]
           checked == Validate(issue.body)
           json == from_str(checked.text)
           created == created_at(issue)
           updated == updated_at(issue)
       IN IF ~checked.ok
          THEN \* a println and continue
               /\ log' = Append(log, [id |-> issue.id, reason |-> checked.reason])
               /\ idx' = idx + 1
               /\ UNCHANGED <<pc, entries>>
          ELSE IF ~json.ok \/ ~created.ok \/ ~updated.ok
          THEN \* one of the three expect calls panics
               /\ pc' = "panicked"
               /\ UNCHANGED <<idx, entries, log>>
          ELSE /\ entries' = Append(entries,
                      LinkEntry(issue, json.value, created.instant, updated.instant))
               /\ idx' = idx + 1
               /\ UNCHANGED <<pc, log>>
    /\ UNCHANGED <<issues, config, active_entries, group_to_entry_map,
                   json_output, js_vars>>

(***************************************************************************)
(* get_all_active_entries, called when get_all_valid_issues has returned.  *)
(***************************************************************************)
KeepAllEntries(label, list) == list

get_all_active_entries(label, list) ==
    SelectSeq(list, LAMBDA issue : label \in issue.labels)

GetAllActiveEntries ==
    /\ pc = "validate"
    /\ idx > Len(issues)
    /\ active_entries' = get_all_active_entries(config.generation.label, entries)
    /\ pc' = "init_map"
    /\ UNCHANGED <<issues, config, idx, entries, log, group_to_entry_map,
                   json_output, js_vars>>

(***************************************************************************)
(* main: the map of one empty bucket per group label, then one iteration   *)
(* of the loop over the active entries (the loop over the groups in it).   *)
(***************************************************************************)
InitGroupMap ==
    /\ pc = "init_map"
    /\ group_to_entry_map' =
           [label \in {config.groups[k].label : k \in 1..Len(config.groups)} |-> <<>>]
    /\ idx' = 1
    /\ pc' = "group"
    /\ UNCHANGED <<issues, config, entries, active_entries, log, json_output, js_vars>>

\* group_to_entry_map.entry(label).or_default().push(entry)
Push(map, label, entry) ==
    IF label \in DOMAIN map
    THEN [map EXCEPT ![label] = Append(@, entry)]
    ELSE [l \in DOMAIN map \cup {label} |->
             IF l = label THEN <<entry>> ELSE map[l]]

RECURSIVE PushToGroups(_, _, _, _)
PushToGroups(map, entry, groups, k) ==
    IF k > Len(groups) THEN map
    ELSE PushToGroups(
             IF groups[k].label \in entry.labels
             THEN Push(map, groups[k].label, entry) ELSE map,
             entry, groups, k + 1)

GroupEntry ==
    /\ pc = "group"
    /\ idx <= Len(active_entries)
    /\ group_to_entry_map' =
           PushToGroups(group_to_entry_map, active_entries[idx], config.groups, 1)
    /\ idx' = idx + 1
    /\ UNCHANGED <<issues, config, pc, entries, active_entries, log,
                   json_output, js_vars>>

(***************************************************************************)
(* generate_json, called when the grouping loop is over.                   *)
(***************************************************************************)
GroupJson(group, list) ==
    [group |-> group.label, groupName |-> group.name,
     groupDesc |-> group.description,
     entries |-> [i \in 1..Len(list) |-> list[i].json_data]]

RECURSIVE generate_json_from(_, _, _)
generate_json_from(groups, map, k) ==
    IF k > Len(groups) THEN <<>>
    ELSE IF groups[k].label \in DOMAIN map
    THEN <<GroupJson(groups[k], map[groups[k].label])>>
             \o generate_json_from(groups, map, k + 1)
    ELSE generate_json_from(groups, map, k + 1)

RECURSIVE generate_json_skipping_empty(_, _)
generate_json_skipping_empty(groups, map) ==
    IF groups = <<>> THEN <<>>
    ELSE IF Head(groups).label \in DOMAIN map /\ map[Head(groups).label] # <<>>
    THEN <<GroupJson(Head(groups), map[Head(groups).label])>>
             \o generate_json_skipping_empty(Tail(groups), map)
    ELSE generate_json_skipping_empty(Tail(groups), map)

generate_json(groups, map) == generate_json_from(groups, map, 1)

GenerateJson ==
    /\ pc = "group"
    /\ idx > Len(active_entries)
    /\ json_output' = generate_json(config.groups, group_to_entry_map)
    /\ pc' = "done"
    /\ UNCHANGED <<issues, config, idx, entries, active_entries, log,
                   group_to_entry_map, js_vars>>

Next ==
    \/ CheckIssue
    \/ GetAllActiveEntries
    \/ InitGroupMap
    \/ GroupEntry
    \/ GenerateJson

Spec == Init /\ [][Next]_vars

SpecValid == InitValid /\ [][Next]_vars

SpecBody == InitBody /\ [][Next]_vars


(***************************************************************************)
(* json_to_js.rs.  A text is a sequence of characters; a serde_json::Value *)
(* is a record of one shape: t is the variant, s the characters of a       *)
(* string (or of a member's key), n the number, kids the elements of an    *)
(* array or the members of an object in the order the map iterates them.   *)
(***************************************************************************)
MaxStrLen == 2

Value(t, s, n, kids) == [t |-> t, s |-> s, n |-> n, kids |-> kids]

JsNull == Value("null", <<>>, 0, <<>>)

JsBool(b) == Value(IF b THEN "true" ELSE "false", <<>>, 0, <<>>)

JsNumber(n) == Value("number", <<>>, n, <<>>)

JsString(s) == Value("string", s, 0, <<>>)

JsArray(items) == Value("array", <<>>, 0, items)

JsMember(key, value) == Value("member", key, 0, <<value>>)

JsObject(members) == Value("object", <<>>, 0, members)

Lower ==
    {"a", "b", "c", "d", "e", "f", "g", "h", "i", "j", "k", "l", "m",
     "n", "o", "p", "q", "r", "s", "t", "u", "v", "w", "x", "y", "z"}

Upper ==
    {"A", "B", "C", "D", "E", "F", "G", "H", "I", "J", "K", "L", "M",
     "N", "O", "P", "Q", "R", "S", "T", "U", "V", "W", "X", "Y", "Z"}

Digits == <<"0", "1", "2", "3", "4", "5", "6", "7", "8", "9">>

DigitSet == {Digits[d] : d \in 1..Len(Digits)}

RECURSIVE Str(_)
Str(chars) == IF chars = <<>> THEN "" ELSE Head(chars) \o Str(Tail(chars))

\* Regex ^[a-zA-Z_$][a-zA-Z0-9_$]*$ run over the name, one character a step.
RECURSIVE re_rest(_, _)
re_rest(name, i) ==
    IF i > Len(name) THEN TRUE
    ELSE IF name[i] \in Lower \cup Upper \cup DigitSet \cup {"_", "$"}
    THEN re_rest(name, i + 1)
    ELSE FALSE

re_is_match(name) ==
    IF name = <<>> THEN FALSE
    ELSE IF name[1] \in Lower \cup Upper \cup {"_", "$"} THEN re_rest(name, 2)
    ELSE FALSE

reserved_words ==
    {"class", "const", "let", "var", "function", "return", "if", "else",
     "for", "while", "do", "switch", "case", "default", "break", "continue",
     "try", "catch", "finally", "throw", "new", "this", "super", "extends",
     "import", "export", "from", "as", "async", "await", "yield", "static",
     "public", "private", "protected"}

identifier_shape_only(name) == re_is_match(name)

is_valid_js_identifier(name) ==
    re_is_match(name) /\ Str(name) \notin reserved_words

\* str::replace of one character by a text.
RECURSIVE replace(_, _, _)
replace(chars, from, to) ==
    IF chars = <<>> THEN <<>>
    ELSE (IF Head(chars) = from THEN to ELSE <<Head(chars)>>)
             \o replace(Tail(chars), from, to)

escape(chars) ==
    replace(replace(replace(replace(replace(chars,
        "\\", <<"\\", "\\">>),
        "\"", <<"\\", "\"">>),
        "\n", <<"\\", "n">>),
        "\r", <<"\\", "r">>),
        "\t", <<"\\", "t">>)

\* "  ".repeat(level)
repeat_indent(level) == [i \in 1..(2 * level) |-> " "]

RECURSIVE join(_)
join(items) ==
    IF items = <<>> THEN <<>>
    ELSE IF Len(items) = 1 THEN items[1]
    ELSE items[1] \o <<",", "\n">> \o join(Tail(items))

\* Number::to_string of an integer.
RECURSIVE digits_of(_)
digits_of(n) ==
    IF n < 10 THEN <<Digits[n + 1]>>
    ELSE digits_of(n \div 10) \o <<Digits[(n % 10) + 1]>>

to_string(n) == IF n < 0 THEN <<"-">> \o digits_of(-n) ELSE digits_of(n)

RECURSIVE json_to_js_format(_, _)
json_to_js_format(obj, indent_level) ==
    LET indent == repeat_indent(indent_level)
        next_indent == repeat_indent(indent_level + 1)
    IN CASE obj.t = "object" ->
              IF obj.kids = <<>> THEN <<"{", "}">>
              ELSE LET items ==
                       [m \in 1..Len(obj.kids) |->
                           LET key == obj.kids[m].s
                               js_key == IF is_valid_js_identifier(key) THEN key
                                         ELSE <<"\"">> \o key \o <<"\"">>
                               js_value == json_to_js_format(obj.kids[m].kids[1],
                                                             indent_level + 1)
                           IN next_indent \o js_key \o <<":", " ">> \o js_value]
                   IN <<"{", "\n">> \o join(items) \o <<"\n">> \o indent \o <<"}">>
         [] obj.t = "array" ->
              IF obj.kids = <<>> THEN <<"[", "]">>
              ELSE LET items ==
                       [m \in 1..Len(obj.kids) |->
                           next_indent \o json_to_js_format(obj.kids[m],
                                                            indent_level + 1)]
                   IN <<"[", "\n">> \o join(items) \o <<"\n">> \o indent \o <<"]">>
         [] obj.t = "string" -> <<"\"">> \o escape(obj.s) \o <<"\"">>
         [] obj.t = "true" -> <<"t", "r", "u", "e">>
         [] obj.t = "false" -> <<"f", "a", "l", "s", "e">>
         [] obj.t = "null" -> <<"n", "u", "l", "l">>
         [] obj.t = "number" -> to_string(obj.n)

\* The values handed to the transcoder.
StringChars == {"a", "n", "\\", "\"", "\n", "\r", "\t"}

KeyChars == {"a", "s", "i", "f", "n", "1", "-", "_", "$", "\\", "\""}

SmallLeaves ==
    {JsNull, JsBool(TRUE), JsBool(FALSE), JsNumber(0), JsNumber(-12),
     JsNumber(305), JsString(<<"a", "\"">>)}

SmallKeys == {<<"a">>, <<"a", "s">>, <<"1", "a">>}

JsStrings == {JsString(chars) : chars \in SeqsUpTo(StringChars, MaxStrLen)}

JsFlatObjects ==
    {JsObject(<<JsMember(key, value)>>) :
        key \in SeqsUpTo(KeyChars, MaxStrLen),
        value \in {JsNull, JsString(<<"a">>)}}

JsArrays ==
    {JsArray(items) : items \in SeqsUpTo(SmallLeaves \cup {JsArray(<<>>), JsObject(<<>>)}, 2)}

JsNested ==
    {JsObject(<<JsMember(k1, JsArray(<<leaf, JsObject(<<JsMember(k2, leaf)>>)>>)),
               JsMember(k2 \o <<"_">>, JsObject(<<JsMember(k1, JsArray(<<>>))>>))>>) :
        k1 \in SmallKeys, k2 \in SmallKeys, leaf \in SmallLeaves}

JsonValues == SmallLeaves \cup JsStrings \cup JsFlatObjects \cup JsArrays \cup JsNested

InitJs ==
    /\ issues = <<>>
    /\ config = DefaultConfig
    /\ pc = "idle"
    /\ idx = 1
    /\ entries = <<>>
    /\ active_entries = <<>>
    /\ log = <<>>
    /\ group_to_entry_map = NoMap
    /\ json_output = <<>>
    /\ js_input \in JsonValues
    /\ js_text = <<>>
    /\ js_pc = "call"

Transcode ==
    /\ js_pc = "call"
    /\ js_text' = json_to_js_format(js_input, 0)
    /\ js_pc' = "returned"
    /\ UNCHANGED <<js_input, pipeline_vars>>

NextJs == Transcode

SpecJs == InitJs /\ [][NextJs]_vars

(***************************************************************************)
(* Vocabulary of the properties.                                           *)
(***************************************************************************)
Positions(body, chunk) == {i \in 1..Len(body) : body[i] = chunk}

Once(body, chunk) == Cardinality(Positions(body, chunk)) = 1

PositionOf(body, chunk) == CHOOSE i \in Positions(body, chunk) : TRUE

\* The issues the validation loop is done with (skipped or turned into an entry).
ExaminedCount ==
    IF pc \in {"validate", "panicked"} THEN idx - 1 ELSE Len(issues)

Examined(p) == p \in 1..ExaminedCount

HasEntry(issue) == \E k \in 1..Len(entries) : entries[k].id = issue.id

EntryOf(issue) == entries[CHOOSE k \in 1..Len(entries) : entries[k].id = issue.id]

Rfc3339Strings == {"2025-05-01T12:00:00Z", "2025-05-01T14:30:00+02:00"}

TimesWellFormed(issue) ==
    issue.created_at \in Rfc3339Strings /\ issue.updated_at \in Rfc3339Strings

Ids(list) == [k \in 1..Len(list) |-> list[k].id]

\* The first chunk after position s, and the last before position e, that is
\* not whitespace (0 when there is none).
FirstTextAfter(body, s, e) ==
    IF \E i \in (s + 1)..(e - 1) : body[i] # " "
    THEN CHOOSE i \in (s + 1)..(e - 1) :
            body[i] # " " /\ \A j \in (s + 1)..(i - 1) : body[j] = " "
    ELSE 0

LastTextBefore(body, s, e) ==
    IF \E i \in (s + 1)..(e - 1) : body[i] # " "
    THEN CHOOSE i \in (s + 1)..(e - 1) :
            body[i] # " " /\ \A j \in (i + 1)..(e - 1) : body[j] = " "
    ELSE 0

\* The text between the opener and the closer of a data region that holds,
\* whitespace apart, an opener first and a closer last.
FenceText(body) ==
    LET s == PositionOf(body, data_start)
        e == PositionOf(body, data_end)
    IN SubSeq(body, FirstTextAfter(body, s, e) + 2, LastTextBefore(body, s, e) - 1)

\* Each marker once, start before end, and between them only whitespace
\* around one json fence that holds valid JSON.
OneJsonBlock(body) ==
    /\ Once(body, data_start)
    /\ Once(body, data_end)
    /\ LET s == PositionOf(body, data_start)
           e == PositionOf(body, data_end)
           a == FirstTextAfter(body, s, e)
           b == LastTextBefore(body, s, e)
       IN /\ s < e
          /\ a # 0
          /\ a + 1 < b
          /\ body[a] = code_block_end
          /\ body[a + 1] = "json"
          /\ body[b] = code_block_end
          /\ from_str(SubSeq(body, a + 2, b - 1)).ok

\* The five rules of the marker grammar.
MarkerGrammar(body) ==
    /\ Once(body, data_start)
    /\ Once(body, data_end)
    /\ PositionOf(body, data_start) < PositionOf(body, data_end)
    /\ LET region == trim(SubSeq(body, PositionOf(body, data_start) + 1,
                                 PositionOf(body, data_end) - 1))
           n == Len(region)
       IN /\ n >= 3
          /\ region[1] = code_block_end
          /\ region[2] = "json"
          /\ region[n] = code_block_end
          /\ Cardinality({i \in 1..(n - 1) :
                 region[i] = code_block_end /\ region[i + 1] = "json"}) = 1
          /\ Cardinality(Positions(region, code_block_end)) = 2
          /\ from_str(SubSeq(region, 3, n - 1)).ok

(***************************************************************************)
(* C1: an issue whose body lacks <!-- DATA_START --> or <!-- DATA_END -->, *)
(* or holds either more than once, never gets a LinkEntry.                 *)
(***************************************************************************)
C1_BadMarkersRejected ==
    \A p \in 1..Len(issues) :
        (~Once(issues[p].body, data_start) \/ ~Once(issues[p].body, data_end))
            => ~HasEntry(issues[p])

\* An issue with one start marker and two end markers has been examined.
C1_Witness ==
    /\ pc = "done"
    /\ \E p \in 1..Len(issues) :
          /\ Cardinality(Positions(issues[p].body, data_start)) = 1
          /\ Cardinality(Positions(issues[p].body, data_end)) = 2
          /\ \E k \in 1..Len(log) :
                /\ log[k].id = issues[p].id
                /\ log[k].reason = "Multiple DATA_START or DATA_END comments found."

(***************************************************************************)
(* C2: an issue in whose body a <!-- DATA_END --> stands before a          *)
(* <!-- DATA_START --> never gets a LinkEntry, whatever else it holds.     *)
(***************************************************************************)
C2_EndBeforeStartRejected ==
    \A p \in 1..Len(issues) :
        (\E i \in Positions(issues[p].body, data_end) :
            \E j \in Positions(issues[p].body, data_start) : i < j)
            => ~HasEntry(issues[p])

\* An issue with one marker of each kind, a well-formed block between them,
\* and the end marker first, has been examined.
C2_Witness ==
    /\ pc = "done"
    /\ \E p \in 1..Len(issues) :
          LET body == issues[p].body
          IN /\ Once(body, data_start)
             /\ Once(body, data_end)
             /\ PositionOf(body, data_end) < PositionOf(body, data_start)
             /\ SubSeq(body, PositionOf(body, data_end) + 1,
                       PositionOf(body, data_start) - 1) = GoodCore
             /\ \E k \in 1..Len(log) : log[k].id = issues[p].id

(***************************************************************************)
(* C3 as stated: every issue (with timestamps as the API writes them)      *)
(* whose body holds each marker once, in order, around one json fence of   *)
(* valid JSON gets a LinkEntry whose json_data is the parsed fence text.   *)
(***************************************************************************)
C3_EveryJsonBlockAccepted ==
    \A p \in 1..Len(issues) :
        (/\ Examined(p) \/ (pc = "panicked" /\ idx = p)
         /\ TimesWellFormed(issues[p])
         /\ OneJsonBlock(issues[p].body))
            => /\ HasEntry(issues[p])
               /\ EntryOf(issues[p]).json_data = from_str(FenceText(issues[p].body)).value

(***************************************************************************)
(* C3 amended: the same, for the bodies whose JSON text holds no run of    *)
(* three backquotes.                                                       *)
(***************************************************************************)
C3_JsonBlockWithoutFenceAccepted ==
    \A p \in 1..Len(issues) :
        (/\ Examined(p) \/ (pc = "panicked" /\ idx = p)
         /\ TimesWellFormed(issues[p])
         /\ OneJsonBlock(issues[p].body)
         /\ Positions(FenceText(issues[p].body), code_block_end) = {})
            => /\ HasEntry(issues[p])
               /\ EntryOf(issues[p]).json_data = from_str(FenceText(issues[p].body)).value

\* An entry has been built from a block with whitespace around the fence and
\* around a JSON string.
C3_Witness ==
    /\ pc = "done"
    /\ \E p \in 1..Len(issues) :
          /\ OneJsonBlock(issues[p].body)
          /\ issues[p].body[2] = " "
          /\ Len(FenceText(issues[p].body)) = 3
          /\ FenceText(issues[p].body)[1] = " "
          /\ HasEntry(issues[p])
          /\ EntryOf(issues[p]).json_data = [kind |-> "string", text |-> <<>>]

(***************************************************************************)
(* C4: when the grouping is over, an entry is in the bucket of a           *)
(* configured group iff its labels hold the selector label and the group's *)
(* label.                                                                  *)
(***************************************************************************)
InBucket(label, entry) ==
    /\ label \in DOMAIN group_to_entry_map
    /\ \E i \in 1..Len(group_to_entry_map[label]) :
          group_to_entry_map[label][i] = entry

C4_BucketIffBothLabels ==
    pc = "done" =>
        \A k \in 1..Len(config.groups) : \A e \in 1..Len(entries) :
            InBucket(config.groups[k].label, entries[e])
                <=> /\ config.generation.label \in entries[e].labels
                    /\ config.groups[k].label \in entries[e].labels

\* One entry sits in two buckets while another carries the selector and no
\* group label, and a third a group label without the selector.
C4_Witness ==
    /\ pc = "done"
    /\ config.generation.label = "approved"
    /\ \E e \in 1..Len(entries) :
          InBucket("cat-a", entries[e]) /\ InBucket("cat-b", entries[e])
    /\ \E e \in 1..Len(entries) :
          /\ entries[e].labels \cap GroupLabels # {}
          /\ "approved" \notin entries[e].labels

(***************************************************************************)
(* C5: the output of generate_json has one element per configured group,   *)
(* in configuration order, also for a group whose bucket is empty.         *)
(***************************************************************************)
C5_OneElementPerGroup ==
    pc = "done" =>
        /\ Len(json_output) = Len(config.groups)
        /\ \A k \in 1..Len(config.groups) :
              /\ json_output[k].group = config.groups[k].label
              /\ json_output[k].groupName = config.groups[k].name
              /\ json_output[k].groupDesc = config.groups[k].description
              /\ group_to_entry_map[config.groups[k].label] = <<>>
                    => json_output[k].entries = <<>>

\* Two groups are configured; one bucket is empty and the other is not.
C5_Witness ==
    /\ pc = "done"
    /\ Len(config.groups) = 2
    /\ \E k \in 1..2 : group_to_entry_map[config.groups[k].label] = <<>>
    /\ \E k \in 1..2 : group_to_entry_map[config.groups[k].label] # <<>>

(***************************************************************************)
(* C8: an issue that breaks a rule of the marker grammar is skipped and    *)
(* the loop goes on: the run never stops at such an issue, the entries are *)
(* the examined issues that keep every rule, in order and by id, and the   *)
(* skipped ones are the others.                                            *)
(***************************************************************************)
C8_ViolatorsSkipped ==
    LET examined == SubSeq(issues, 1, ExaminedCount)
    IN /\ pc = "panicked" => MarkerGrammar(issues[idx].body)
       /\ Ids(entries) =
              Ids(SelectSeq(examined, LAMBDA i : MarkerGrammar(i.body)))
       /\ Ids(log) =
              Ids(SelectSeq(examined, LAMBDA i : ~MarkerGrammar(i.body)))

\* The first of two issues broke a rule and the second became an entry.
C8_Witness ==
    /\ pc = "init_map"
    /\ Len(issues) = 2
    /\ ~MarkerGrammar(issues[1].body)
    /\ Ids(log) = <<issues[1].id>>
    /\ Ids(entries) = <<issues[2].id>>

(***************************************************************************)
(* C9 as stated: building the entry of an issue that passed the checks     *)
(* never stops the run, whatever created_at and updated_at hold.           *)
(***************************************************************************)
C9_ConstructionNeverFails ==
    ~(pc = "panicked" /\ Validate(issues[idx].body).ok)

(***************************************************************************)
(* C9 amended: building the entry of an issue that passed the checks stops *)
(* the run only when created_at or updated_at is not an RFC 3339           *)
(* timestamp; every other issue that passed the checks gets its entry.     *)
(***************************************************************************)
C9_FailsOnlyOnTimestamps ==
    /\ pc = "panicked" =>
          /\ Validate(issues[idx].body).ok
          /\ ~TimesWellFormed(issues[idx])
    /\ \A p \in 1..Len(issues) :
          (Examined(p) /\ Validate(issues[p].body).ok)
              => HasEntry(issues[p]) /\ TimesWellFormed(issues[p])

\* An entry has been built from an issue whose created_at carries an offset.
C9_Witness ==
    /\ pc = "done"
    /\ \E p \in 1..Len(issues) :
          /\ issues[p].created_at = "2025-05-01T14:30:00+02:00"
          /\ HasEntry(issues[p])
          /\ EntryOf(issues[p]).created_at = 12 * 60 + 30

(***************************************************************************)
(* C10: in the output, the entries of every group are a subsequence of the *)
(* payloads of the fetched issues, in the order of the fetch.              *)
(***************************************************************************)
RECURSIVE IsSubsequence(_, _)
IsSubsequence(a, b) ==
    IF a = <<>> THEN TRUE
    ELSE IF b = <<>> THEN FALSE
    ELSE IF Head(a) = Head(b) THEN IsSubsequence(Tail(a), Tail(b))
    ELSE IsSubsequence(a, Tail(b))

FetchedPayloads ==
    LET valid == SelectSeq(issues, LAMBDA i : Validate(i.body).ok)
    IN [k \in 1..Len(valid) |-> from_str(Validate(valid[k].body).text).value]

C10_EntriesInFetchOrder ==
    pc = "done" =>
        \A k \in 1..Len(json_output) :
            IsSubsequence(json_output[k].entries, FetchedPayloads)


\* The same for the configurations whose group labels differ: the double
\* entries of a label configured twice are all that breaks the order.
C10_InFetchOrderWhenLabelsDiffer ==
    (/\ pc = "done"
     /\ \A j \in 1..Len(config.groups) : \A k \in 1..Len(config.groups) :
           config.groups[j].label = config.groups[k].label => j = k)
        => \A k \in 1..Len(json_output) :
               IsSubsequence(json_output[k].entries, FetchedPayloads)

(***************************************************************************)
(* Reading a text as a JavaScript object literal (ECMAScript: string       *)
(* literals, identifier names, numeric literals, array and object          *)
(* initialisers).  A read gives ok, the value v and the position i after   *)
(* it.  The escapes \b \f \v \0 \x \u are not read: no text of the model   *)
(* holds them.                                                             *)
(***************************************************************************)
ReadFail == [ok |-> FALSE, v |-> JsNull, i |-> 0]

ReadOk(v, i) == [ok |-> TRUE, v |-> v, i |-> i]

RECURSIVE SkipSpace(_, _)
SkipSpace(text, i) ==
    IF i <= Len(text) /\ text[i] \in {" ", "\n", "\r", "\t"}
    THEN SkipSpace(text, i + 1) ELSE i

\* The characters of a string literal from position i on, the opening quote
\* being read already; acc holds the characters decoded so far.
RECURSIVE ReadStringTail(_, _, _)
ReadStringTail(text, i, acc) ==
    IF i > Len(text) THEN ReadFail
    ELSE IF text[i] = "\"" THEN ReadOk(JsString(acc), i + 1)
    ELSE IF text[i] \in {"\n", "\r"} THEN ReadFail
    ELSE IF text[i] = "\\"
    THEN IF i + 1 > Len(text) \/ text[i + 1] \in {"\n", "\r"} THEN ReadFail
         ELSE LET e == text[i + 1]
                  c == CASE e = "n" -> "\n"
                         [] e = "r" -> "\r"
                         [] e = "t" -> "\t"
                         [] OTHER -> e
              IN ReadStringTail(text, i + 2, Append(acc, c))
    ELSE ReadStringTail(text, i + 1, Append(acc, text[i]))

RECURSIVE ReadName(_, _, _)
ReadName(text, i, acc) ==
    IF i <= Len(text) /\ text[i] \in Lower \cup Upper \cup DigitSet \cup {"_", "$"}
    THEN ReadName(text, i + 1, Append(acc, text[i]))
    ELSE ReadOk(JsString(acc), i)

RECURSIVE ReadDigits(_, _, _)
ReadDigits(text, i, n) ==
    IF i <= Len(text) /\ text[i] \in DigitSet
    THEN ReadDigits(text, i + 1,
             10 * n + (CHOOSE d \in 0..9 : Digits[d + 1] = text[i]))
    ELSE ReadOk(JsNumber(n), i)

ReadWord(text, i, word, v) ==
    IF Occurs(text, word, i) THEN ReadOk(v, i + Len(word)) ELSE ReadFail

RECURSIVE ReadValue(_, _)
RECURSIVE ReadItems(_, _, _)
RECURSIVE ReadMembers(_, _, _)

\* The elements of an array from position i on, up to the closing bracket.
ReadItems(text, i, acc) ==
    LET item == ReadValue(text, i)
        j == SkipSpace(text, item.i)
    IN IF ~item.ok \/ j > Len(text) THEN ReadFail
       ELSE IF text[j] = "," THEN ReadItems(text, j + 1, Append(acc, item.v))
       ELSE IF text[j] = "]" THEN ReadOk(JsArray(Append(acc, item.v)), j + 1)
       ELSE ReadFail

\* The members of an object from position i on, up to the closing brace.
ReadMembers(text, i, acc) ==
    LET k == SkipSpace(text, i)
        key == IF k > Len(text) THEN ReadFail
               ELSE IF text[k] = "\"" THEN ReadStringTail(text, k + 1, <<>>)
               ELSE IF text[k] \in Lower \cup Upper \cup {"_", "$"}
               THEN ReadName(text, k, <<>>)
               ELSE ReadFail
        c == SkipSpace(text, key.i)
    IN IF ~key.ok \/ c > Len(text) \/ text[c] # ":" THEN ReadFail
       ELSE LET value == ReadValue(text, c + 1)
                j == SkipSpace(text, value.i)
                members == Append(acc, JsMember(key.v.s, value.v))
            IN IF ~value.ok \/ j > Len(text) THEN ReadFail
               ELSE IF text[j] = "," THEN ReadMembers(text, j + 1, members)
               ELSE IF text[j] = "}" THEN ReadOk(JsObject(members), j + 1)
               ELSE ReadFail

ReadValue(text, i) ==
    LET j == SkipSpace(text, i)
    IN IF j > Len(text) THEN ReadFail
       ELSE CASE text[j] = "{" ->
                    LET k == SkipSpace(text, j + 1)
                    IN IF k <= Len(text) /\ text[k] = "}"
                       THEN ReadOk(JsObject(<<>>), k + 1)
                       ELSE ReadMembers(text, j + 1, <<>>)
              [] text[j] = "[" ->
                    LET k == SkipSpace(text, j + 1)
                    IN IF k <= Len(text) /\ text[k] = "]"
                       THEN ReadOk(JsArray(<<>>), k + 1)
                       ELSE ReadItems(text, j + 1, <<>>)
              [] text[j] = "\"" -> ReadStringTail(text, j + 1, <<>>)
              [] text[j] = "t" -> ReadWord(text, j, <<"t", "r", "u", "e">>, JsBool(TRUE))
              [] text[j] = "f" ->
                    ReadWord(text, j, <<"f", "a", "l", "s", "e">>, JsBool(FALSE))
              [] text[j] = "n" -> ReadWord(text, j, <<"n", "u", "l", "l">>, JsNull)
              [] text[j] = "-" ->
                    IF j + 1 <= Len(text) /\ text[j + 1] \in DigitSet
                    THEN LET r == ReadDigits(text, j + 1, 0)
                         IN ReadOk(JsNumber(-r.v.n), r.i)
                    ELSE ReadFail
              [] text[j] \in DigitSet -> ReadDigits(text, j, 0)
              [] OTHER -> ReadFail

\* The whole text read as one value.
ReadJs(text) ==
    LET r == ReadValue(text, 1)
    IN IF r.ok /\ SkipSpace(text, r.i) > Len(text) THEN r ELSE ReadFail

(***************************************************************************)
(* C6: the text json_to_js_format returns, read back as a JavaScript       *)
(* object literal, is the value it was given: every key and every string   *)
(* is recovered character for character.                                   *)
(***************************************************************************)
C6_RoundTrip ==
    js_pc = "returned" =>
        /\ ReadJs(js_text).ok
        /\ ReadJs(js_text).v = js_input

\* The same for the values whose keys need no escaping: the strings are
\* escaped, the keys are not.
RECURSIVE KeysPlain(_)
KeysPlain(v) ==
    \A m \in 1..Len(v.kids) :
        /\ v.kids[m].t = "member" =>
              \A c \in 1..Len(v.kids[m].s) :
                  v.kids[m].s[c] \notin {"\\", "\"", "\n", "\r"}
        /\ KeysPlain(v.kids[m])

C6_RoundTripOfPlainKeys ==
    (js_pc = "returned" /\ KeysPlain(js_input)) =>
        /\ ReadJs(js_text).ok
        /\ ReadJs(js_text).v = js_input

(***************************************************************************)
(* C7: the first key of an object is written bare iff the whole key has    *)
(* the shape [a-zA-Z_$][a-zA-Z0-9_$]* and is no reserved word; any other   *)
(* key, the empty key included, is written between double quotes.          *)
(***************************************************************************)
IdentifierShaped(key) ==
    /\ Len(key) >= 1
    /\ \A c \in 1..Len(key) : key[c] \in Lower \cup Upper \cup DigitSet \cup {"_", "$"}
    /\ key[1] \notin DigitSet

SpecReservedWords ==
    {"class", "const", "let", "var", "function", "return", "if", "else", "for",
     "while", "do", "switch", "case", "default", "break", "continue", "try",
     "catch", "finally", "throw", "new", "this", "super", "extends", "import",
     "export", "from", "as", "async", "await", "yield", "static", "public",
     "private", "protected"}

C7_BareIffIdentifier ==
    (js_pc = "returned" /\ js_input.t = "object" /\ js_input.kids # <<>>) =>
        LET key == js_input.kids[1].s
            line == SubSeq(js_text, 5, Len(js_text))
        IN IF IdentifierShaped(key) /\ Str(key) \notin SpecReservedWords
           THEN starts_with(line, key \o <<":", " ">>)
           ELSE starts_with(line, <<"\"">> \o key \o <<"\"", ":", " ">>)

\* The reserved word "as" has been written as a quoted key.
C7_Witness ==
    /\ js_pc = "returned"
    /\ js_input.t = "object"
    /\ js_input.kids # <<>>
    /\ js_input.kids[1].s = <<"a", "s">>
    /\ SubSeq(js_text, 1, 9) = <<"{", "\n", " ", " ", "\"", "a", "s", "\"", ":">>


(***************************************************************************)
(* C11: in the output, no group object holds more than one element that    *)
(* comes from the same validated issue, also when two configured groups    *)
(* carry the same label.  The elements of a group object are the payloads  *)
(* of its label's bucket, position by position, so the elements that come  *)
(* from an issue are the places of the bucket that hold its entry.         *)
(***************************************************************************)
Contributions(k, issue) ==
    LET bucket == group_to_entry_map[config.groups[k].label]
    IN {i \in 1..Len(json_output[k].entries) :
           /\ bucket[i].id = issue.id
           /\ json_output[k].entries[i] = bucket[i].json_data}

C11_AtMostOncePerGroup ==
    pc = "done" =>
        \A k \in 1..Len(json_output) : \A p \in 1..Len(issues) :
            Cardinality(Contributions(k, issues[p])) <= 1

\* The same for the configurations whose group labels differ: there every
\* issue is pushed to a bucket at most once.
C11_AtMostOnceWhenLabelsDiffer ==
    (/\ pc = "done"
     /\ \A j \in 1..Len(config.groups) : \A k \in 1..Len(config.groups) :
           config.groups[j].label = config.groups[k].label => j = k)
        => \A k \in 1..Len(json_output) : \A p \in 1..Len(issues) :
               Cardinality(Contributions(k, issues[p])) <= 1

====
